---- MODULE Spec2Model ----
(***************************************************************************)
(* Command dispatch and request/response correlation bridge of the         *)
(* rust_module crate: the handlers General and Create (Service::execute),  *)
(* RepositoryImpl::register / receive_event, and the backend worker seen   *)
(* through its two channels.                                                *)
(***************************************************************************)
EXTENDS Integers, Sequences, FiniteSets, TLC

\* ------------------------------------------------------------------ bounds
\* concurrent execute calls
NumCalls == 2
\* capacity of the command channel (mpsc::channel(n))
CmdCap == 1
\* concurrent receive_event calls
NumEvCalls == 2
\* payloads the worker puts on the event channel in one behaviour
MaxEvents == 2

\* calls of rust_main in one behaviour
MaxMains == 2

Calls == 1..NumCalls
EvCalls == 1..NumEvCalls

\* ------------------------------------------------------------ wire payloads
\* A wire payload is a JSON text, kept as its sequence of tokens.
NoPayload == <<>>

PeerCreateJson ==
    <<"{", "is_success", "true", "result", "{", "type", "PEER", "command", "CREATE",
      "peer_id", "data_caller", "token", "pt-9749250e", "}", "}">>
PeerDeleteJson ==
    <<"{", "is_success", "true", "result", "{", "type", "PEER", "command", "DELETE",
      "peer_id", "data_caller", "token", "pt-87b54b79", "}", "}">>
MediaJson ==
    <<"{", "is_success", "true", "result", "{", "type", "MEDIA", "command", "CALL",
      "media_connection_id", "mc-1", "}", "}">>
DataJson ==
    <<"{", "is_success", "true", "result", "{", "type", "DATA", "command", "CONNECT",
      "data_connection_id", "dc-1", "}", "}">>
ErrorJson == <<"{", "is_success", "false", "result", "recv invalid message", "}">>
\* the reply of error_recv_invalid_message: the closing brace of the document is missing
TruncatedJson ==
    <<"{", "is_success", "true", "result", "{", "type", "PEER", "command", "CREATE",
      "peer_id", "hoge", "token", "pt-9749250e", "}">>
InvalidJson == <<"invalid json">>

ReplyPayloads ==
    {PeerCreateJson, PeerDeleteJson, MediaJson, DataJson, ErrorJson, TruncatedJson}
EventPayloads == {PeerCreateJson, ErrorJson, InvalidJson}

\* ------------------------------------------------------------------ results
NoValue == [kind |-> "None"]
NoError == [variant |-> "None", message |-> ""]
NoResult == [ok |-> FALSE, val |-> NoValue, err |-> NoError]
Ok(v) == [ok |-> TRUE, val |-> v, err |-> NoError]
Err(e) == [ok |-> FALSE, val |-> NoValue, err |-> e]

create_local_error(message) == [variant |-> "LocalError", message |-> message]
SerdeError == [variant |-> "SerdeError", message |-> "serde_json::Error"]

\* -------------------------------------------------- Response::from_str
Braces == {"{", "}"}
NumPairs(s) == (Len(s) - 7) \div 2
ResultKeys(s) == {s[4 + 2 * i] : i \in 1..NumPairs(s)}
ResultBody(s) ==
    [k \in ResultKeys(s) |-> s[5 + 2 * (CHOOSE i \in 1..NumPairs(s) : s[4 + 2 * i] = k)]]
FamilyOf(type) ==
    CASE type = "PEER" -> "Peer"
      [] type = "MEDIA" -> "Media"
      [] type = "DATA" -> "Data"
      [] OTHER -> "Unknown"
RequiredKeys(type) ==
    CASE type = "PEER" -> {"type", "command", "peer_id", "token"}
      [] type = "MEDIA" -> {"type", "command", "media_connection_id"}
      [] type = "DATA" -> {"type", "command", "data_connection_id"}
      [] OTHER -> {"type", "command"}
IsSuccessJson(s) ==
    /\ Len(s) >= 11
    /\ (Len(s) - 7) % 2 = 0
    /\ s[1] = "{" /\ s[2] = "is_success" /\ s[3] = "true" /\ s[4] = "result"
    /\ s[5] = "{" /\ s[Len(s) - 1] = "}" /\ s[Len(s)] = "}"
    /\ \A i \in 6..(Len(s) - 2) : s[i] \notin Braces
    /\ "type" \in ResultKeys(s)
    /\ ResultBody(s)["type"] \in {"PEER", "MEDIA", "DATA"}
    /\ ResultKeys(s) = RequiredKeys(ResultBody(s)["type"])
IsErrorJson(s) ==
    /\ Len(s) = 6
    /\ s[1] = "{" /\ s[2] = "is_success" /\ s[3] = "false" /\ s[4] = "result"
    /\ s[5] \notin Braces /\ s[6] = "}"
Success(family, body) == [kind |-> "Success", family |-> family, body |-> body]
Error(e) == [kind |-> "Error", error |-> e]
FromStr(s) ==
    IF IsSuccessJson(s)
    THEN Ok(Success(FamilyOf(ResultBody(s)["type"]), ResultBody(s)))
    ELSE IF IsErrorJson(s) THEN Ok(Error(s[5]))
    ELSE Err(SerdeError)

\* ----------------------------------------------------------- requests
NoRequest == [type |-> "None", command |-> "None", params |-> ""]
PeerCreateDto ==
    [type |-> "Peer", command |-> "Create",
     params |-> "CreatePeerParams { key: \"pt-9749250e\", domain: \"localhost\", peer_id: PeerId(\"peer_id\"), turn: true }"]
PeerDeleteDto ==
    [type |-> "Peer", command |-> "Delete",
     params |-> "PeerInfo { peer_id: PeerId(\"data_caller\"), token: Token(\"pt-87b54b79\") }"]
TestDto == [type |-> "Test", command |-> "None", params |-> ""]
RequestDtos == {PeerCreateDto, PeerDeleteDto, TestDto}

\* format!("{:?}", message)
Debug(message) ==
    IF message.type = "Peer"
    THEN "Peer(" \o message.command \o " { params: " \o message.params \o " })"
    ELSE message.type

\* Request::to_string
to_string(request) ==
    <<"{", "type", "PEER", "command", request.command, "params", request.params, "}">>

\* ------------------------------------------------------------------- state
VARIABLES
    \* execute calls: position, handler, RequestDto
    pc, handler, message,
    \* register: calls made, messages put on the command channel, slot, result
    regCalls, sends, slotOf, regResult,
    \* what execute returned
    result,
    \* the command channel, its receiver, and the slots the worker holds
    cmdQ, cmdRxDropped, held,
    \* the oneshot channels: state and value
    slots,
    \* the payload the worker wrote in answer to each call's message
    written,
    \* FUNCTIONS_INSTANCE is set; create_peer_callback invocations
    functionsSet, callbacks,
    \* Program Status, the event channel, its producer, payloads emitted so far
    shuttingDown, evQ, evTxDropped, emitted,
    \* the receiver Mutex: holder (0: free) and the waiters in arrival order
    lockHolder, lockQ,
    \* receive_event calls: position, result, payload taken, receiver polled
    epc, eresult, taken, polled,
    \* how many times each payload was put on the event channel, and how many
    \* times a call returned it
    emittedCount, returnedCount,
    \* the position in the worker's order of emission of each queued payload,
    \* and of the payload a call took last (0: none yet)
    evIds, lastId,
    \* CHANNELS is set; calls of rust_main; calls of ProgramState::shutdown by the core
    channelsSet, mains, shutdownCalls,
    \* DATA_CONNECTION_STATE_INSTANCE, MEDIA_CONNECTION_STATE_INSTANCE
    dataStore, mediaStore,
    \* the last GlobalState operation, and the last store or remove made on each key
    lastOp, lastWriteData, lastWriteMedia

bridgeVars ==
    <<pc, handler, message, regCalls, sends, slotOf, regResult, result, cmdQ,
      cmdRxDropped, held, slots, written, functionsSet, callbacks>>
eventVars ==
    <<shuttingDown, evQ, evTxDropped, emitted, lockHolder, lockQ, epc, eresult,
      taken, polled, emittedCount, returnedCount, evIds, lastId>>
countVars == <<emittedCount, returnedCount>>
orderVars == <<evIds, lastId>>
mainVars == <<channelsSet, mains, shutdownCalls>>
cacheVars == <<dataStore, mediaStore, lastOp, lastWriteData, lastWriteMedia>>
vars == <<bridgeVars, eventVars, mainVars, cacheVars>>

\* DataConnectionId, MediaConnectionId: opaque strings
ConnectionIds == {"id-1", "id-2"}
\* DataConnectionResponse
DataConnectionResponses == {"topics-a", "topics-b"}
\* CallResponseDto
CallResponses == {"call-a", "call-b"}
\* Option::None
NoEntry == "None"
NoOp == [op |-> "none", key |-> "", value |-> NoEntry, ret |-> NoEntry]

EmptySlot == [state |-> "unused", value |-> NoPayload]

Init ==
    /\ pc = [c \in Calls |-> "idle"]
    /\ handler = [c \in Calls |-> "None"]
    /\ message = [c \in Calls |-> NoRequest]
    /\ regCalls = [c \in Calls |-> 0]
    /\ sends = [c \in Calls |-> 0]
    /\ slotOf = [c \in Calls |-> 0]
    /\ regResult = [c \in Calls |-> NoResult]
    /\ result = [c \in Calls |-> NoResult]
    /\ cmdQ = <<>>
    /\ cmdRxDropped = FALSE
    /\ held = {}
    /\ slots = [s \in Calls |-> EmptySlot]
    /\ written = [c \in Calls |-> NoPayload]
    /\ functionsSet \in BOOLEAN
    /\ callbacks = <<>>
    /\ shuttingDown = FALSE
    /\ evQ = <<>>
    /\ evTxDropped = FALSE
    /\ emitted = 0
    /\ lockHolder = 0
    /\ lockQ = <<>>
    /\ epc = [e \in EvCalls |-> "idle"]
    /\ eresult = [e \in EvCalls |-> NoResult]
    /\ taken = [e \in EvCalls |-> NoPayload]
    /\ polled = [e \in EvCalls |-> FALSE]
    /\ emittedCount = [p \in EventPayloads |-> 0]
    /\ returnedCount = [p \in EventPayloads |-> 0]
    /\ evIds = <<>>
    /\ lastId = 0
    /\ channelsSet = FALSE
    /\ mains = 0
    /\ shutdownCalls = <<>>
    /\ dataStore = [k \in ConnectionIds |-> NoEntry]
    /\ mediaStore = [k \in ConnectionIds |-> NoEntry]
    /\ lastOp = NoOp
    /\ lastWriteData = [k \in ConnectionIds |-> "never"]
    /\ lastWriteMedia = [k \in ConnectionIds |-> "never"]

\* --------------------------------------------------- RepositoryImpl::register
\* faulty variant: every call uses the same reply slot
oneshot_channel_shared(c) == 1

\* tokio::sync::oneshot::channel(): a fresh reply slot for this call
oneshot_channel(c) == c

\* faulty variant: the send failure is reported with the message of the receive failure
RegisterSendErrorAsReceive ==
    Err(create_local_error("could not receive response from skyway crate"))

\* self.sender.send(..) failed
RegisterSendError == Err(create_local_error("could not send request to skyway crate"))

\* faulty variant: a dropped sender is not told apart from a reply
RegisterReceiveIgnoreDrop(slot) == FromStr(slot.value)

\* faulty variant: a reply that does not parse is reported as a missing reply
RegisterReceiveLocalOnGarbage(slot) ==
    IF slot.state = "filled" /\ FromStr(slot.value).ok
    THEN FromStr(slot.value)
    ELSE Err(create_local_error("could not receive response from skyway crate"))

\* match channel_message_rx.await
RegisterReceive(slot) ==
    IF slot.state = "filled"
    THEN FromStr(slot.value)
    ELSE Err(create_local_error("could not receive response from skyway crate"))

\* ------------------------------------------------------------ Service::execute
\* faulty variant: the Test request is let through to register
IsPeerOrTest(dto) == dto.type \in {"Peer", "Test"}

\* if let RequestDto::Peer(inner) = message
IsPeer(dto) == dto.type = "Peer"

\* format!("wrong parameter {:?}", message), create_local_error
WrongParameter(dto) == Err(create_local_error("wrong parameter " \o Debug(dto)))

from_entity(family, body) == [family |-> family, fields |-> body]
DtoSuccess(dto) == [kind |-> "Success", dto |-> dto]
DtoError(e) == [kind |-> "Error", error |-> e]

\* faulty variant: the Media arm builds a Data dto
GeneralResponseDataForMedia(reg) ==
    IF ~reg.ok THEN Err(reg.err)
    ELSE IF reg.val.kind = "Error" THEN Ok(DtoError(reg.val.error))
    ELSE CASE reg.val.family = "Peer" -> Ok(DtoSuccess(from_entity("Peer", reg.val.body)))
           [] reg.val.family = "Media" -> Ok(DtoSuccess(from_entity("Data", reg.val.body)))
           [] reg.val.family = "Data" -> Ok(DtoSuccess(from_entity("Data", reg.val.body)))

\* faulty variant: a structured failure is raised as an error
GeneralResponseRaise(reg) ==
    IF ~reg.ok THEN Err(reg.err)
    ELSE IF reg.val.kind = "Error" THEN Err(create_local_error(reg.val.error))
    ELSE Ok(DtoSuccess(from_entity(reg.val.family, reg.val.body)))

\* General::execute after register(..).await
GeneralResponse(reg) ==
    IF ~reg.ok THEN Err(reg.err)
    ELSE IF reg.val.kind = "Error" THEN Ok(DtoError(reg.val.error))
    ELSE CASE reg.val.family = "Peer" -> Ok(DtoSuccess(from_entity("Peer", reg.val.body)))
           [] reg.val.family = "Media" -> Ok(DtoSuccess(from_entity("Media", reg.val.body)))
           [] reg.val.family = "Data" -> Ok(DtoSuccess(from_entity("Data", reg.val.body)))

\* if let Ok(Response::Success(Peer(Create(ref peer_info)))) = message
IsCreateSuccess(reg) ==
    /\ reg.ok
    /\ reg.val.kind = "Success"
    /\ reg.val.family = "Peer"
    /\ reg.val.body["command"] = "CREATE"

\* faulty variant: Create hands register's error on, as General does
CreateResponsePropagate(reg, dto) ==
    IF IsCreateSuccess(reg)
    THEN Ok(DtoSuccess(from_entity("Peer", reg.val.body)))
    ELSE IF ~reg.ok THEN Err(reg.err)
    ELSE WrongParameter(dto)

\* faulty variant: Create hands a structured failure on, as General does
CreateResponseErrorThrough(reg, dto) ==
    IF IsCreateSuccess(reg)
    THEN Ok(DtoSuccess(from_entity("Peer", reg.val.body)))
    ELSE IF reg.ok /\ reg.val.kind = "Error" THEN Ok(DtoError(reg.val.error))
    ELSE WrongParameter(dto)

\* Create::execute after register(..).await
CreateResponse(reg, dto) ==
    IF IsCreateSuccess(reg)
    THEN Ok(DtoSuccess(from_entity("Peer", reg.val.body)))
    ELSE WrongParameter(dto)

\* faulty variant: the callback's two arguments are passed in the wrong order
CreateCallbackSwapped(c, reg) ==
    IF IsCreateSuccess(reg) /\ functionsSet
    THEN <<[call |-> c, peer_id |-> reg.val.body["token"], token |-> reg.val.body["peer_id"]]>>
    ELSE <<>>

\* faulty variant: the callback is invoked for every successful Peer response
CreateCallbackAnyPeer(c, reg) ==
    IF reg.ok /\ reg.val.kind = "Success" /\ reg.val.family = "Peer" /\ functionsSet
    THEN <<[call |-> c, peer_id |-> reg.val.body["peer_id"], token |-> reg.val.body["token"]]>>
    ELSE <<>>

\* FUNCTIONS_INSTANCE.get().map(|functions| functions.create_peer_callback(..))
CreateCallback(c, reg) ==
    IF IsCreateSuccess(reg) /\ functionsSet
    THEN <<[call |-> c, peer_id |-> reg.val.body["peer_id"], token |-> reg.val.body["token"]]>>
    ELSE <<>>

\* the handler's code from the return of register to the return of execute
Return(c, reg) ==
    /\ regResult' = [regResult EXCEPT ![c] = reg]
    /\ result' = [result EXCEPT ![c] =
            IF handler[c] = "General" THEN GeneralResponse(reg)
            ELSE CreateResponse(reg, message[c])]
    /\ callbacks' = IF handler[c] = "Create" THEN callbacks \o CreateCallback(c, reg)
                    ELSE callbacks
    /\ pc' = [pc EXCEPT ![c] = "done"]

\* execute(.., message) up to the send on the command channel
Execute(c, h, dto) ==
    /\ pc[c] = "idle"
    /\ handler' = [handler EXCEPT ![c] = h]
    /\ message' = [message EXCEPT ![c] = dto]
    /\ IF IsPeer(dto)
       THEN /\ regCalls' = [regCalls EXCEPT ![c] = @ + 1]
            /\ slotOf' = [slotOf EXCEPT ![c] = oneshot_channel(c)]
            /\ slots' = [slots EXCEPT ![oneshot_channel(c)] =
                    [state |-> "open", value |-> NoPayload]]
            /\ pc' = [pc EXCEPT ![c] = "send"]
            /\ UNCHANGED result
       ELSE /\ result' = [result EXCEPT ![c] = WrongParameter(dto)]
            /\ pc' = [pc EXCEPT ![c] = "done"]
            /\ UNCHANGED <<regCalls, slotOf, slots>>
    /\ UNCHANGED <<sends, regResult, cmdQ, cmdRxDropped, held, written,
                   functionsSet, callbacks, eventVars, mainVars, cacheVars>>

\* self.sender.send((channel_message_tx, message)).await
Send(c) ==
    /\ pc[c] = "send"
    /\ IF cmdRxDropped
       THEN /\ Return(c, RegisterSendError)
            /\ slots' = [slots EXCEPT ![slotOf[c]].state = "dropped"]
            /\ UNCHANGED <<sends, cmdQ>>
       ELSE /\ Len(cmdQ) < CmdCap
            /\ cmdQ' = Append(cmdQ, [slot |-> slotOf[c],
                                      payload |-> to_string(message[c]), call |-> c])
            /\ sends' = [sends EXCEPT ![c] = @ + 1]
            /\ pc' = [pc EXCEPT ![c] = "await"]
            /\ UNCHANGED <<regResult, result, callbacks, slots>>
    /\ UNCHANGED <<handler, message, regCalls, slotOf, cmdRxDropped, held, written,
                   functionsSet, eventVars, mainVars, cacheVars>>

\* faulty variant: a dropped reply sender makes the call register again
ReceiveRetryOnDrop(c) ==
    /\ pc[c] = "await"
    /\ slots[slotOf[c]].state \in {"filled", "dropped"}
    /\ IF slots[slotOf[c]].state = "dropped" /\ regCalls[c] < 2
       THEN /\ pc' = [pc EXCEPT ![c] = "send"]
            /\ regCalls' = [regCalls EXCEPT ![c] = @ + 1]
            /\ slots' = [slots EXCEPT ![slotOf[c]] = [state |-> "open", value |-> NoPayload]]
            /\ UNCHANGED <<regResult, result, callbacks>>
       ELSE /\ Return(c, RegisterReceive(slots[slotOf[c]]))
            /\ UNCHANGED <<regCalls, slots>>
    /\ UNCHANGED <<handler, message, sends, slotOf, cmdQ, cmdRxDropped, held, written,
                   functionsSet, eventVars, mainVars, cacheVars>>

\* faulty variant: the wait for the reply is given up when shutdown is reported
ReceiveOrCancel(c) ==
    /\ pc[c] = "await"
    /\ slots[slotOf[c]].state \in {"filled", "dropped"} \/ shuttingDown
    /\ IF slots[slotOf[c]].state \in {"filled", "dropped"}
       THEN Return(c, RegisterReceive(slots[slotOf[c]]))
       ELSE Return(c, Err(create_local_error("ros has been shut down")))
    /\ UNCHANGED <<handler, message, regCalls, sends, slotOf, cmdQ, cmdRxDropped,
                   held, slots, written, functionsSet, eventVars, mainVars, cacheVars>>

\* faulty variant: the wait for the reply ends on a value only, the drop of
\* the reply sender goes unnoticed
ReceiveFilledOnly(c) ==
    /\ pc[c] = "await"
    /\ slots[slotOf[c]].state = "filled"
    /\ Return(c, RegisterReceive(slots[slotOf[c]]))
    /\ UNCHANGED <<handler, message, regCalls, sends, slotOf, cmdQ, cmdRxDropped,
                   held, slots, written, functionsSet, eventVars, mainVars, cacheVars>>

\* channel_message_rx.await completes, and execute runs to its return
Receive(c) ==
    /\ pc[c] = "await"
    /\ slots[slotOf[c]].state \in {"filled", "dropped"}
    /\ Return(c, RegisterReceive(slots[slotOf[c]]))
    /\ UNCHANGED <<handler, message, regCalls, sends, slotOf, cmdQ, cmdRxDropped,
                   held, slots, written, functionsSet, eventVars, mainVars, cacheVars>>

\* ------------------------------------------------------------ backend worker
\* message_rx.recv().await
WorkerRecv ==
    /\ ~cmdRxDropped
    /\ cmdQ # <<>>
    /\ held' = held \cup {Head(cmdQ)}
    /\ cmdQ' = Tail(cmdQ)
    /\ UNCHANGED <<pc, handler, message, regCalls, sends, slotOf, regResult, result,
                   cmdRxDropped, slots, written, functionsSet, callbacks, eventVars, mainVars, cacheVars>>

\* response_message_tx.send(payload)
WorkerReply(m, p) ==
    /\ m \in held
    /\ held' = held \ {m}
    /\ slots' = [slots EXCEPT ![m.slot] = [state |-> "filled", value |-> p]]
    /\ written' = [written EXCEPT ![m.call] = p]
    /\ UNCHANGED <<pc, handler, message, regCalls, sends, slotOf, regResult, result,
                   cmdQ, cmdRxDropped, functionsSet, callbacks, eventVars, mainVars, cacheVars>>

\* the worker drops response_message_tx without sending
WorkerDropSlot(m) ==
    /\ m \in held
    /\ held' = held \ {m}
    /\ slots' = [slots EXCEPT ![m.slot].state = "dropped"]
    /\ UNCHANGED <<pc, handler, message, regCalls, sends, slotOf, regResult, result,
                   cmdQ, cmdRxDropped, written, functionsSet, callbacks, eventVars, mainVars, cacheVars>>

\* the worker drops message_rx: the channel closes and its queued messages,
\* with their reply senders, are dropped
WorkerDropReceiver ==
    /\ ~cmdRxDropped
    /\ cmdRxDropped' = TRUE
    /\ cmdQ' = <<>>
    /\ slots' = [s \in DOMAIN slots |->
            IF \E i \in 1..Len(cmdQ) : cmdQ[i].slot = s
            THEN [slots[s] EXCEPT !.state = "dropped"] ELSE slots[s]]
    /\ UNCHANGED <<pc, handler, message, regCalls, sends, slotOf, regResult, result,
                   held, written, functionsSet, callbacks, eventVars, mainVars, cacheVars>>

Handlers == {"General", "Create"}

Next ==
    \/ \E c \in Calls, h \in Handlers, dto \in RequestDtos : Execute(c, h, dto)
    \/ \E c \in Calls : Send(c)
    \/ \E c \in Calls : Receive(c)
    \/ WorkerRecv
    \/ \E m \in held, p \in ReplyPayloads : WorkerReply(m, p)
    \/ \E m \in held : WorkerDropSlot(m)
    \/ WorkerDropReceiver

Spec == Init /\ [][Next]_vars

\* ------------------------------------------------ RepositoryImpl::receive_event
\* the worker answers or drops the slot of call c that it holds
WorkerSettle(c) ==
    \E m \in held :
        /\ m.call = c
        /\ WorkerDropSlot(m) \/ \E p \in ReplyPayloads : WorkerReply(m, p)

\* the runtime keeps running every caller task (the channel's permits are
\* handed out in arrival order, so a sender that can proceed again and again
\* does proceed), and the worker keeps receiving and settles every slot it holds
FairSpec ==
    /\ Spec
    /\ WF_vars(WorkerRecv)
    /\ \A c \in Calls :
          SF_vars(Send(c)) /\ WF_vars(Receive(c)) /\ WF_vars(WorkerSettle(c))

\* faulty variant: the shutdown exit reports the closed receiver's message
ShutDownErrorAsClosed == Err(create_local_error("receiver is closed"))

\* return after the while loop
ShutDownError == Err(create_local_error("ros has been shut down"))
ReceiverClosedError == Err(create_local_error("receiver is closed"))

\* faulty variant: the closed channel is reported before its queued payloads
\* are read
PollStepClosedFirst(q, closed) ==
    IF closed THEN [next |-> "done", result |-> ReceiverClosedError, take |-> FALSE]
    ELSE IF q # <<>>
    THEN [next |-> "done", result |-> FromStr(Head(q)), take |-> TRUE]
    ELSE [next |-> "check", result |-> NoResult, take |-> FALSE]

\* faulty variant: a payload that does not parse is dropped and the loop goes on
PollStepSkipGarbage(q, closed) ==
    IF q # <<>>
    THEN IF FromStr(Head(q)).ok
         THEN [next |-> "done", result |-> FromStr(Head(q)), take |-> TRUE]
         ELSE [next |-> "check", result |-> NoResult, take |-> TRUE]
    ELSE IF closed THEN [next |-> "done", result |-> ReceiverClosedError, take |-> FALSE]
    ELSE [next |-> "check", result |-> NoResult, take |-> FALSE]

\* the three arms of match time::timeout(Duration::from_millis(1000), rx.recv()).await:
\* a payload queued or arriving in the interval, the channel closed and empty,
\* the interval elapsed
PollStep(q, closed) ==
    IF q # <<>>
    THEN [next |-> "done", result |-> FromStr(Head(q)), take |-> TRUE]
    ELSE IF closed THEN [next |-> "done", result |-> ReceiverClosedError, take |-> FALSE]
    ELSE [next |-> "check", result |-> NoResult, take |-> FALSE]

\* a call of receive_event begins
ReceiveEvent(e) ==
    /\ epc[e] \in {"idle", "done"}
    /\ epc' = [epc EXCEPT ![e] = "check"]
    /\ eresult' = [eresult EXCEPT ![e] = NoResult]
    /\ taken' = [taken EXCEPT ![e] = NoPayload]
    /\ polled' = [polled EXCEPT ![e] = FALSE]
    /\ UNCHANGED <<bridgeVars, mainVars, cacheVars, countVars, orderVars, shuttingDown, evQ,
                   evTxDropped, emitted, lockHolder, lockQ>>

\* faulty variant: the loop body runs once before Program Status is read
EvCheckPollFirst(e) ==
    /\ epc[e] = "check"
    /\ IF shuttingDown /\ polled[e]
       THEN /\ eresult' = [eresult EXCEPT ![e] = ShutDownError]
            /\ epc' = [epc EXCEPT ![e] = "done"]
            /\ UNCHANGED lockQ
       ELSE /\ lockQ' = Append(lockQ, e)
            /\ epc' = [epc EXCEPT ![e] = "lock"]
            /\ UNCHANGED eresult
    /\ UNCHANGED <<bridgeVars, mainVars, cacheVars, countVars, orderVars, shuttingDown, evQ,
                   evTxDropped, emitted, lockHolder, taken, polled>>

\* while !program_state.is_shutting_down(), then self.receiver.lock() is requested
EvCheck(e) ==
    /\ epc[e] = "check"
    /\ IF shuttingDown
       THEN /\ eresult' = [eresult EXCEPT ![e] = ShutDownError]
            /\ epc' = [epc EXCEPT ![e] = "done"]
            /\ UNCHANGED lockQ
       ELSE /\ lockQ' = Append(lockQ, e)
            /\ epc' = [epc EXCEPT ![e] = "lock"]
            /\ UNCHANGED eresult
    /\ UNCHANGED <<bridgeVars, mainVars, cacheVars, countVars, orderVars, shuttingDown, evQ,
                   evTxDropped, emitted, lockHolder, taken, polled>>

\* faulty variant: the receiver is handed out without waiting for its release
EvLockNoWait(e) ==
    /\ epc[e] = "lock"
    /\ lockQ # <<>> /\ Head(lockQ) = e
    /\ lockHolder' = e
    /\ lockQ' = Tail(lockQ)
    /\ epc' = [epc EXCEPT ![e] = "poll"]
    /\ UNCHANGED <<bridgeVars, mainVars, cacheVars, countVars, orderVars, shuttingDown, evQ,
                   evTxDropped, emitted, eresult, taken, polled>>

\* self.receiver.lock().await is granted, in arrival order
EvLock(e) ==
    /\ epc[e] = "lock"
    /\ lockHolder = 0
    /\ lockQ # <<>> /\ Head(lockQ) = e
    /\ lockHolder' = e
    /\ lockQ' = Tail(lockQ)
    /\ epc' = [epc EXCEPT ![e] = "poll"]
    /\ UNCHANGED <<bridgeVars, mainVars, cacheVars, countVars, orderVars, shuttingDown, evQ,
                   evTxDropped, emitted, eresult, taken, polled>>

\* faulty variant: rx.recv() is awaited without the timeout
EvPollBlocking(e) ==
    /\ epc[e] = "poll"
    /\ lockHolder = e
    /\ evQ # <<>> \/ evTxDropped
    /\ lockHolder' = 0
    /\ polled' = [polled EXCEPT ![e] = TRUE]
    /\ LET step == PollStep(evQ, evTxDropped) IN
       /\ evQ' = IF step.take THEN Tail(evQ) ELSE evQ
       /\ taken' = IF step.take THEN [taken EXCEPT ![e] = Head(evQ)] ELSE taken
       /\ eresult' = [eresult EXCEPT ![e] = step.result]
       /\ epc' = [epc EXCEPT ![e] = step.next]
       /\ returnedCount' = IF step.take /\ step.next = "done"
                         THEN [returnedCount EXCEPT ![Head(evQ)] = @ + 1]
                         ELSE returnedCount
       /\ evIds' = IF step.take THEN Tail(evIds) ELSE evIds
       /\ lastId' = IF step.take THEN Head(evIds) ELSE lastId
    /\ UNCHANGED <<bridgeVars, mainVars, cacheVars, emittedCount, shuttingDown,
                   evTxDropped, emitted, lockQ>>

\* faulty variant: the newest queued payload is read, not the oldest
EvPollNewest(e) ==
    /\ epc[e] = "poll"
    /\ lockHolder = e
    /\ lockHolder' = 0
    /\ polled' = [polled EXCEPT ![e] = TRUE]
    /\ LET step == PollStep(evQ, evTxDropped)
           n == Len(evQ) IN
       /\ evQ' = IF step.take THEN SubSeq(evQ, 1, n - 1) ELSE evQ
       /\ taken' = IF step.take THEN [taken EXCEPT ![e] = evQ[n]] ELSE taken
       /\ eresult' = [eresult EXCEPT ![e] = IF step.take THEN FromStr(evQ[n]) ELSE step.result]
       /\ epc' = [epc EXCEPT ![e] = step.next]
       /\ returnedCount' = IF step.take /\ step.next = "done"
                         THEN [returnedCount EXCEPT ![evQ[n]] = @ + 1]
                         ELSE returnedCount
       /\ evIds' = IF step.take THEN SubSeq(evIds, 1, n - 1) ELSE evIds
       /\ lastId' = IF step.take THEN evIds[n] ELSE lastId
    /\ UNCHANGED <<bridgeVars, mainVars, cacheVars, emittedCount, shuttingDown,
                   evTxDropped, emitted, lockQ>>

\* one turn of the loop body with the receiver locked; the guard rx is dropped
\* at the return and at the continue
EvPoll(e) ==
    /\ epc[e] = "poll"
    /\ lockHolder = e
    /\ lockHolder' = 0
    /\ polled' = [polled EXCEPT ![e] = TRUE]
    /\ LET step == PollStep(evQ, evTxDropped) IN
       /\ evQ' = IF step.take THEN Tail(evQ) ELSE evQ
       /\ taken' = IF step.take THEN [taken EXCEPT ![e] = Head(evQ)] ELSE taken
       /\ eresult' = [eresult EXCEPT ![e] = step.result]
       /\ epc' = [epc EXCEPT ![e] = step.next]
       /\ returnedCount' = IF step.take /\ step.next = "done"
                         THEN [returnedCount EXCEPT ![Head(evQ)] = @ + 1]
                         ELSE returnedCount
       /\ evIds' = IF step.take THEN Tail(evIds) ELSE evIds
       /\ lastId' = IF step.take THEN Head(evIds) ELSE lastId
    /\ UNCHANGED <<bridgeVars, mainVars, cacheVars, emittedCount, shuttingDown,
                   evTxDropped, emitted, lockQ>>

\* ------------------------------------------- Program Status and event producer
\* the host process starts shutting down
ShutDown ==
    /\ ~shuttingDown
    /\ shuttingDown' = TRUE
    /\ UNCHANGED <<bridgeVars, mainVars, cacheVars, countVars, orderVars, evQ, evTxDropped, emitted,
                   lockHolder, lockQ, epc, eresult, taken, polled>>

\* event_tx.send(payload).await
WorkerEmit(p) ==
    /\ ~evTxDropped
    /\ emitted < MaxEvents
    /\ evQ' = Append(evQ, p)
    /\ emitted' = emitted + 1
    /\ emittedCount' = [emittedCount EXCEPT ![p] = @ + 1]
    /\ evIds' = Append(evIds, emitted + 1)
    /\ UNCHANGED <<bridgeVars, mainVars, cacheVars, returnedCount, lastId, shuttingDown,
                   evTxDropped, lockHolder, lockQ, epc, eresult, taken, polled>>

\* the worker drops event_tx
WorkerDropEventTx ==
    /\ ~evTxDropped
    /\ evTxDropped' = TRUE
    /\ UNCHANGED <<bridgeVars, mainVars, cacheVars, countVars, orderVars, shuttingDown, evQ, emitted,
                   lockHolder, lockQ, epc, eresult, taken, polled>>

EventNext ==
    \/ \E e \in EvCalls : ReceiveEvent(e)
    \/ \E e \in EvCalls : EvCheck(e)
    \/ \E e \in EvCalls : EvLock(e)
    \/ \E e \in EvCalls : EvPoll(e)
    \/ ShutDown
    \/ \E p \in EventPayloads : WorkerEmit(p)
    \/ WorkerDropEventTx

EventSpec == Init /\ [][EventNext]_vars

\* the runtime keeps running every receive_event task: a ready check, a lock
\* granted in arrival order and a poll, which ends within the interval, all
\* take place
FairEventSpec ==
    /\ EventSpec
    /\ \A e \in EvCalls :
          WF_vars(EvCheck(e)) /\ WF_vars(EvLock(e)) /\ WF_vars(EvPoll(e))

\* ----------------------------------------------------------- GlobalStateImpl
\* Each operation locks its map for the whole call: one step.
Op(op, k, v, ret) == [op |-> op, key |-> k, value |-> v, ret |-> ret]

\* faulty variant: an entry already present is kept
StoreTopicKeepFirst(k, v) ==
    /\ dataStore' = IF dataStore[k] = NoEntry THEN [dataStore EXCEPT ![k] = v]
                    ELSE dataStore
    /\ lastOp' = Op("store_topic", k, v, NoEntry)
    /\ lastWriteData' = [lastWriteData EXCEPT ![k] = v]
    /\ UNCHANGED <<bridgeVars, eventVars, mainVars, mediaStore, lastWriteMedia>>

\* hash.lock().unwrap().insert(data_connection_id, response)
StoreTopic(k, v) ==
    /\ dataStore' = [dataStore EXCEPT ![k] = v]
    /\ lastOp' = Op("store_topic", k, v, NoEntry)
    /\ lastWriteData' = [lastWriteData EXCEPT ![k] = v]
    /\ UNCHANGED <<bridgeVars, eventVars, mainVars, mediaStore, lastWriteMedia>>

\* hash.get(data_connection_id).map(|item| item.clone())
FindTopic(k) ==
    /\ lastOp' = Op("find_topic", k, NoEntry, dataStore[k])
    /\ UNCHANGED <<bridgeVars, eventVars, mainVars, dataStore, mediaStore,
                   lastWriteData, lastWriteMedia>>

\* let _ = hash.remove(data_connection_id)
RemoveTopic(k) ==
    /\ dataStore' = [dataStore EXCEPT ![k] = NoEntry]
    /\ lastOp' = Op("remove_topic", k, NoEntry, NoEntry)
    /\ lastWriteData' = [lastWriteData EXCEPT ![k] = "removed"]
    /\ UNCHANGED <<bridgeVars, eventVars, mainVars, mediaStore, lastWriteMedia>>

\* faulty variant: the call response is inserted into the data-connection map
StoreCallResponseWrongMap(k, v) ==
    /\ dataStore' = [dataStore EXCEPT ![k] = v]
    /\ lastOp' = Op("store_call_response", k, v, NoEntry)
    /\ lastWriteMedia' = [lastWriteMedia EXCEPT ![k] = v]
    /\ UNCHANGED <<bridgeVars, eventVars, mainVars, mediaStore, lastWriteData>>

\* hash.lock().unwrap().insert(media_connection_id, response)
StoreCallResponse(k, v) ==
    /\ mediaStore' = [mediaStore EXCEPT ![k] = v]
    /\ lastOp' = Op("store_call_response", k, v, NoEntry)
    /\ lastWriteMedia' = [lastWriteMedia EXCEPT ![k] = v]
    /\ UNCHANGED <<bridgeVars, eventVars, mainVars, dataStore, lastWriteData>>

\* hash.get(media_connection_id).map(|item| item.clone())
FindCallResponse(k) ==
    /\ lastOp' = Op("find_call_response", k, NoEntry, mediaStore[k])
    /\ UNCHANGED <<bridgeVars, eventVars, mainVars, dataStore, mediaStore,
                   lastWriteData, lastWriteMedia>>

CacheNext ==
    \/ \E k \in ConnectionIds, v \in DataConnectionResponses : StoreTopic(k, v)
    \/ \E k \in ConnectionIds : FindTopic(k)
    \/ \E k \in ConnectionIds : RemoveTopic(k)
    \/ \E k \in ConnectionIds, v \in CallResponses : StoreCallResponse(k, v)
    \/ \E k \in ConnectionIds : FindCallResponse(k)

CacheSpec == Init /\ [][CacheNext]_vars

\* ------------------------------------------------------------------ rust_main
\* faulty variant: the test of CHANNELS.set's result is inverted
SetFailedInverted(alreadySet) == ~alreadySet

\* result.is_err(): OnceCell::set fails when the cell is already set
SetFailed(alreadySet) == alreadySet

\* rust_main up to wait_for_shutdown
RustMain ==
    /\ mains < MaxMains
    /\ mains' = mains + 1
    /\ channelsSet' = TRUE
    /\ IF SetFailed(channelsSet)
       THEN /\ shutdownCalls' = Append(shutdownCalls, "rust_main")
            /\ shuttingDown' = TRUE
       ELSE UNCHANGED <<shutdownCalls, shuttingDown>>
    /\ UNCHANGED <<bridgeVars, cacheVars, countVars, orderVars, evQ, evTxDropped, emitted,
                   lockHolder, lockQ, epc, eresult, taken, polled>>

LifecycleNext ==
    \/ EventNext
    \/ RustMain

\* receive_event with start-up and shutdown
LifecycleSpec == Init /\ [][LifecycleNext]_vars

\* register with Program Status changing under it
CancelNext ==
    \/ Next
    \/ ShutDown

CancelSpec == Init /\ [][CancelNext]_vars

\* ------------------------------------------------------------------ claims
SendFailedText == "could not send request to skyway crate"
NoResponseText == "could not receive response from skyway crate"
WrongCreateText ==
    "wrong parameter Peer(Create { params: CreatePeerParams { key: \"pt-9749250e\", domain: \"localhost\", peer_id: PeerId(\"peer_id\"), turn: true } })"

\* register returned a well-formed Response of the given kind to call c
Replied(c, kind) == regResult[c].ok /\ regResult[c].val.kind = kind

\* C1: for any interleaving of concurrent register calls and worker replies, a
\* register call that returns a decoded reply (a Response or a decode error)
\* returns the decoding of the payload the worker wrote in answer to this call's
\* own message, and calls in flight never share a reply slot.
C1_OwnReplyOnly ==
    /\ \A c \in Calls : pc[c] = "done" /\ sends[c] = 1 =>
          /\ written[c] # NoPayload => regResult[c] = FromStr(written[c])
          /\ regResult[c].err.variant # "LocalError" => written[c] # NoPayload
    /\ \A c, d \in Calls :
          c # d /\ pc[c] \in {"send", "await"} /\ pc[d] \in {"send", "await"}
             => slotOf[c] # slotOf[d]

\* two calls were in flight together and each got its own, different, reply
C1_Witness ==
    /\ pc[1] = "done" /\ pc[2] = "done"
    /\ written[1] = ErrorJson /\ written[2] = MediaJson
    /\ Replied(1, "Error") /\ Replied(2, "Success")

\* C2: for a Peer-family request, General.execute calls register exactly once
\* and returns its result unchanged: Success of family F with the same payload,
\* a structured Error as Ok(Error), an Err as the same Err.
C2_GeneralPassThrough ==
    \A c \in Calls : pc[c] = "done" /\ handler[c] = "General" /\ message[c].type = "Peer" =>
        /\ regCalls[c] = 1
        /\ Replied(c, "Success") =>
              /\ result[c].ok /\ result[c].val.kind = "Success"
              /\ result[c].val.dto.family = regResult[c].val.family
              /\ result[c].val.dto.fields = regResult[c].val.body
        /\ Replied(c, "Error") =>
              /\ result[c].ok /\ result[c].val.kind = "Error"
              /\ result[c].val.error = regResult[c].val.error
        /\ ~regResult[c].ok => ~result[c].ok /\ result[c].err = regResult[c].err

\* General returned a Media success
C2_Witness ==
    \E c \in Calls :
        /\ pc[c] = "done" /\ handler[c] = "General" /\ written[c] = MediaJson
        /\ result[c].ok /\ result[c].val.kind = "Success"
        /\ result[c].val.dto.family = "Media"

\* C3: for a request that is not of the Peer family, execute of General and of
\* Create returns LocalError("wrong parameter " + rendering of the request), and
\* register is not called: nothing is put on the command channel.
C3_WrongParameter ==
    \A c \in Calls : pc[c] = "done" /\ message[c].type = "Test" =>
        /\ result[c] = Err(create_local_error("wrong parameter Test"))
        /\ regCalls[c] = 0 /\ sends[c] = 0
        /\ \A i \in 1..Len(cmdQ) : cmdQ[i].call # c
        /\ \A m \in held : m.call # c

\* both handlers have refused a Test request
C3_Witness ==
    /\ pc[1] = "done" /\ handler[1] = "General" /\ message[1] = TestDto
    /\ pc[2] = "done" /\ handler[2] = "Create" /\ message[2] = TestDto

\* C4 as stated: a send on the closed command channel ends register with
\* LocalError("could not send request to backend").
C4_Original ==
    [][\A c \in Calls : pc[c] = "send" /\ cmdRxDropped /\ pc'[c] # "send" =>
          regResult'[c] = Err(create_local_error("could not send request to backend"))]_vars

\* C4 amended: a send on the closed command channel ends register with
\* LocalError("could not send request to skyway crate"), without the message
\* being queued and without waiting on the reply slot.
C4_SendFailure ==
    [][\A c \in Calls : pc[c] = "send" /\ cmdRxDropped /\ pc'[c] # "send" =>
          /\ regResult'[c] = Err(create_local_error(SendFailedText))
          /\ pc'[c] = "done"
          /\ sends'[c] = sends[c] /\ cmdQ' = cmdQ]_vars

\* a register call found the command channel closed
C4_Witness ==
    \E c \in Calls :
        pc[c] = "done" /\ regCalls[c] = 1 /\ sends[c] = 0 /\ cmdRxDropped
           /\ regResult[c].err.message = SendFailedText

\* C5 as stated: when the slot's sender is dropped without a value, register
\* returns LocalError("could not receive response from backend").
C5_Original ==
    [][\A c \in Calls :
          pc[c] = "await" /\ slots[slotOf[c]].state = "dropped" /\ pc'[c] # "await" =>
             regResult'[c] = Err(create_local_error("could not receive response from backend"))]_vars

\* C5 amended: when the slot's sender is dropped without a value, register
\* returns LocalError("could not receive response from skyway crate").
C5_NoResponse ==
    [][\A c \in Calls :
          pc[c] = "await" /\ slots[slotOf[c]].state = "dropped" /\ pc'[c] # "await" =>
             regResult'[c] = Err(create_local_error(NoResponseText))]_vars

\* the worker received a call's message and dropped its slot
C5_Witness ==
    \E c \in Calls :
        /\ pc[c] = "done" /\ sends[c] = 1 /\ ~cmdRxDropped
        /\ written[c] = NoPayload
        /\ regResult[c].err.message = NoResponseText

\* C6: a reply that is not a well-formed Response makes register return the
\* decode error (SerdeError): not a LocalError, not a Response.
C6_DecodeError ==
    \A c \in Calls : pc[c] = "done" /\ written[c] = TruncatedJson =>
        /\ ~regResult[c].ok
        /\ regResult[c].err.variant = "SerdeError"

\* a register call got the truncated reply
C6_Witness ==
    \E c \in Calls : pc[c] = "done" /\ written[c] = TruncatedJson /\ ~regResult[c].ok

\* C7 as stated: for General and for Create, a round trip that ends with a
\* structured Error(e) makes execute return Ok(Error(e)).
C7_Original ==
    \A c \in Calls : pc[c] = "done" /\ Replied(c, "Error") =>
        /\ result[c].ok /\ result[c].val.kind = "Error"
        /\ result[c].val.error = regResult[c].val.error

\* C7 amended: General returns Ok(Error(e)) for a structured Error(e); Create
\* returns the LocalError "wrong parameter ..." instead.
C7_StructuredFailure ==
    \A c \in Calls : pc[c] = "done" /\ Replied(c, "Error") =>
        /\ handler[c] = "General" =>
              /\ result[c].ok /\ result[c].val.kind = "Error"
              /\ result[c].val.error = regResult[c].val.error
        /\ handler[c] = "Create" =>
              /\ ~result[c].ok /\ result[c].err.variant = "LocalError"
              /\ result[c].err.message = "wrong parameter " \o Debug(message[c])

\* both handlers have seen a structured failure
C7_Witness ==
    /\ pc[1] = "done" /\ handler[1] = "General" /\ Replied(1, "Error")
    /\ pc[2] = "done" /\ handler[2] = "Create" /\ Replied(2, "Error")

\* the create_peer_callback invocations made by call c
CallbacksOf(c) == {i \in 1..Len(callbacks) : callbacks[i].call = c}

\* C8: when the round trip of Create.execute returns Success(Peer(Create{peer_id,
\* token})), execute returns Success(Peer(Create)) with the same peer_id and
\* token, and a registered create-peer callback has by then been invoked exactly
\* once, with that peer_id and that token.
C8_CreateSuccess ==
    \A c \in Calls :
        pc[c] = "done" /\ handler[c] = "Create" /\ written[c] = PeerCreateJson =>
            /\ result[c].ok /\ result[c].val.kind = "Success"
            /\ result[c].val.dto.family = "Peer"
            /\ result[c].val.dto.fields["command"] = "CREATE"
            /\ result[c].val.dto.fields["peer_id"] = "data_caller"
            /\ result[c].val.dto.fields["token"] = "pt-9749250e"
            /\ functionsSet =>
                  /\ Cardinality(CallbacksOf(c)) = 1
                  /\ \A i \in CallbacksOf(c) :
                        callbacks[i].peer_id = "data_caller" /\ callbacks[i].token = "pt-9749250e"

\* Create succeeded with the callback registered
C8_Witness ==
    \E c \in Calls :
        /\ pc[c] = "done" /\ handler[c] = "Create" /\ message[c] = PeerCreateDto
        /\ written[c] = PeerCreateJson /\ functionsSet /\ result[c].ok
        /\ CallbacksOf(c) # {}

\* the worker received the create-peer message of Create.execute and dropped
\* its slot
CreateUnanswered(c) ==
    /\ pc[c] = "done" /\ handler[c] = "Create" /\ message[c] = PeerCreateDto
    /\ sends[c] = 1 /\ written[c] = NoPayload

\* C9 as stated: when the worker never replies to a create-peer request,
\* Create.execute returns LocalError("could not receive response from backend"),
\* the error of register.
C9_Original ==
    \A c \in Calls : CreateUnanswered(c) =>
        result[c] = Err(create_local_error("could not receive response from backend"))

\* C9 amended: when the worker never replies to a create-peer request, register
\* returns LocalError("could not receive response from skyway crate") and
\* Create.execute replaces it by LocalError("wrong parameter " + rendering of the
\* request).
C9_CreateUnanswered ==
    \A c \in Calls : CreateUnanswered(c) =>
        /\ regResult[c] = Err(create_local_error(NoResponseText))
        /\ result[c] = Err(create_local_error(WrongCreateText))

\* a create-peer request of Create.execute went unanswered
C9_Witness == \E c \in Calls : CreateUnanswered(c) /\ ~result[c].ok

\* C10: a receive_event call that has passed the shutdown check and polls the
\* event channel while a payload is there takes the first payload and returns
\* its decoding, Ok(Response) or the decode error, and the call ends.
C10_EventReturned ==
    [][\A e \in EvCalls : epc[e] = "poll" /\ evQ # <<>> /\ epc'[e] # "poll" =>
          /\ epc'[e] = "done"
          /\ evQ' = Tail(evQ) /\ taken'[e] = Head(evQ)
          /\ Head(evQ) = PeerCreateJson =>
                /\ eresult'[e].ok /\ eresult'[e].val.kind = "Success"
                /\ eresult'[e].val.body["peer_id"] = "data_caller"
          /\ Head(evQ) = ErrorJson =>
                /\ eresult'[e].ok /\ eresult'[e].val.kind = "Error"
          /\ Head(evQ) = InvalidJson => eresult'[e] = Err(SerdeError)]_vars

\* one call returned an event and another a decode error, with no shutdown
C10_Witness ==
    /\ ~shuttingDown
    /\ \E e \in EvCalls : epc[e] = "done" /\ taken[e] = PeerCreateJson /\ eresult[e].ok
    /\ \E e \in EvCalls :
          epc[e] = "done" /\ taken[e] = InvalidJson /\ eresult[e] = Err(SerdeError)

\* C11: a receive_event call that polls the event channel when its producer is
\* dropped and it is empty returns LocalError("receiver is closed"); while
\* payloads are still queued behind the dropped producer, the poll returns the
\* first of them instead.
C11_ReceiverClosed ==
    [][\A e \in EvCalls : epc[e] = "poll" /\ evTxDropped /\ epc'[e] # "poll" =>
          /\ epc'[e] = "done"
          /\ evQ = <<>> =>
                /\ eresult'[e] = Err(create_local_error("receiver is closed"))
                /\ taken'[e] = NoPayload
          /\ evQ # <<>> =>
                /\ taken'[e] = Head(evQ) /\ evQ' = Tail(evQ)
                /\ eresult'[e].err.variant # "LocalError"]_vars

\* after the producer was dropped one call got a queued payload and another
\* the closed-receiver error
C11_Witness ==
    /\ evTxDropped /\ evQ = <<>>
    /\ \E e \in EvCalls : epc[e] = "done" /\ taken[e] # NoPayload
    /\ \E e \in EvCalls :
          epc[e] = "done" /\ eresult[e] = Err(create_local_error("receiver is closed"))

\* C12 as stated: the loop exit on shutdown returns
\* LocalError("worker has been shut down").
C12_Original ==
    [][\A e \in EvCalls : epc[e] = "check" /\ shuttingDown /\ epc'[e] # "check" =>
          eresult'[e] = Err(create_local_error("worker has been shut down"))]_vars

ShutDownText == "ros has been shut down"

\* C12 amended: receive_event returns LocalError("ros has been shut down")
\* exactly when its loop exits because a check of Program Status reported
\* shutting-down: that check ends the call with this error, and no other step
\* of a call produces it.
C12_ShutDownExit ==
    [][\A e \in EvCalls :
          /\ epc[e] = "check" /\ shuttingDown /\ epc'[e] # "check" =>
                epc'[e] = "done" /\ eresult'[e] = Err(create_local_error(ShutDownText))
          /\ eresult'[e].err.message = ShutDownText /\ eresult[e].err.message # ShutDownText =>
                epc[e] = "check" /\ shuttingDown /\ epc'[e] = "done"]_vars

\* a call that had polled the channel left its loop on shutdown
C12_Witness ==
    \E e \in EvCalls :
        /\ epc[e] = "done" /\ polled[e] /\ shuttingDown
        /\ eresult[e].err.message = ShutDownText

\* the copies of payload p queued on the event channel
Queued(p) == Cardinality({i \in 1..Len(evQ) : evQ[i] = p})

\* C13: across receive_event calls, timeouts and shutdown exits, every payload
\* put on the event channel has been returned by a call, as its decoding, or is
\* still queued: none is taken and discarded; and a call that ended with a
\* payload returned the decoding of that payload.
C13_NoEventLost ==
    /\ \A p \in EventPayloads : emittedCount[p] = returnedCount[p] + Queued(p)
    /\ \A e \in EvCalls : taken[e] # NoPayload =>
          epc[e] = "done" /\ eresult[e] = FromStr(taken[e])

\* a call timed out and left on shutdown while a payload was queued, after
\* another payload had been returned
C13_Witness ==
    /\ \E e \in EvCalls :
          epc[e] = "done" /\ polled[e] /\ eresult[e] = ShutDownError
    /\ evQ # <<>>
    /\ \E p \in EventPayloads : returnedCount[p] > 0

\* C14: in each store, a find(k) made after store(k, v), with no later store or
\* remove on k, returns v; v is the value of the last store on k, so a second
\* store replaces the first.
C14_FindAfterStore ==
    /\ lastOp.op = "find_topic" /\ lastWriteData[lastOp.key] \in DataConnectionResponses =>
          lastOp.ret = lastWriteData[lastOp.key]
    /\ lastOp.op = "find_call_response" /\ lastWriteMedia[lastOp.key] \in CallResponses =>
          lastOp.ret = lastWriteMedia[lastOp.key]

\* a find returned the stored value while the other store held another entry
C14_Witness ==
    /\ lastOp.op = "find_topic" /\ lastOp.key = "id-1" /\ lastOp.ret = "topics-b"
    /\ mediaStore["id-1"] = "call-a"

\* C15 as stated: each of the two stores offers remove(key), an operation after
\* which the store has no entry at key, and find(k) after remove(k) returns
\* nothing.
C15_Original ==
    /\ \A k \in ConnectionIds :
          /\ dataStore[k] # NoEntry => ENABLED (CacheNext /\ dataStore'[k] = NoEntry)
          /\ mediaStore[k] # NoEntry => ENABLED (CacheNext /\ mediaStore'[k] = NoEntry)
    /\ lastOp.op = "find_topic" /\ lastWriteData[lastOp.key] = "removed" =>
          lastOp.ret = NoEntry

\* C16: an operation on key k of one store changes at most the entry at k of
\* that store: the other keys and the other store keep their entries, and a
\* find changes neither store.
C16_Frame ==
    [][\A k \in ConnectionIds :
          /\ dataStore'[k] # dataStore[k] =>
                lastOp'.op \in {"store_topic", "remove_topic"} /\ lastOp'.key = k
          /\ mediaStore'[k] # mediaStore[k] =>
                lastOp'.op = "store_call_response" /\ lastOp'.key = k
          /\ lastOp'.op \in {"find_topic", "find_call_response"} =>
                dataStore' = dataStore /\ mediaStore' = mediaStore]_vars

\* an entry was removed next to entries at another key and in the other store
C16_Witness ==
    /\ lastOp.op = "remove_topic" /\ lastOp.key = "id-1"
    /\ dataStore["id-1"] = NoEntry /\ dataStore["id-2"] = "topics-a"
    /\ mediaStore["id-1"] = "call-b"

\* C17: receive_event never changes Program Status and never requests
\* shutdown; the core calls ProgramState::shutdown only in rust_main, when
\* CHANNELS was already set; any other change of the flag is the host's own.
C17_StatusReadOnly ==
    [][/\ shutdownCalls' # shutdownCalls =>
             /\ mains' = mains + 1 /\ channelsSet
             /\ shutdownCalls' = Append(shutdownCalls, "rust_main")
       /\ shuttingDown' # shuttingDown =>
             \/ shutdownCalls' # shutdownCalls
             \/ UNCHANGED <<epc, eresult, taken, polled, lockHolder, lockQ, evQ, mainVars>>
       /\ (\E e \in EvCalls : epc'[e] # epc[e]) =>
             shuttingDown' = shuttingDown /\ shutdownCalls' = shutdownCalls]_vars

\* rust_main requested shutdown and a receive_event call observed it
C17_Witness ==
    /\ shutdownCalls = <<"rust_main">>
    /\ \E e \in EvCalls : epc[e] = "done" /\ polled[e] /\ eresult[e] = ShutDownError

\* the messages of call c on the command channel or in the worker's hands
InFlight(c) ==
    Cardinality({i \in 1..Len(cmdQ) : cmdQ[i].call = c})
        + Cardinality({m \in held : m.call = c})

\* C18: no retries: an execute call makes at most one register call, and a
\* register call puts at most one message on the command channel: one when the
\* send succeeded, none when it failed.
C18_NoRetry ==
    \A c \in Calls :
        /\ regCalls[c] <= 1 /\ sends[c] <= regCalls[c]
        /\ InFlight(c) <= sends[c]
        /\ pc[c] = "await" => sends[c] = 1
        /\ pc[c] = "done" /\ regCalls[c] = 1 =>
              sends[c] = IF regResult[c] = Err(create_local_error(SendFailedText)) THEN 0 ELSE 1

\* one call failed to send and another was left unanswered
C18_Witness ==
    /\ pc[1] = "done" /\ regCalls[1] = 1 /\ sends[1] = 0
    /\ pc[2] = "done" /\ sends[2] = 1
    /\ regResult[2] = Err(create_local_error(NoResponseText))

\* C19: once Program Status is shutting-down, every receive_event call in
\* progress eventually returns, also when calls contend for the receiver.
C19_ShutDownReturns ==
    \A e \in EvCalls :
        (shuttingDown /\ epc[e] \in {"check", "lock", "poll"}) ~> (epc[e] = "done")

\* shutdown is reported while one call polls and another waits for the lock
C19_Witness ==
    /\ shuttingDown
    /\ \E e, f \in EvCalls : epc[e] = "poll" /\ epc[f] = "lock"

\* C20: a register call whose send succeeded leaves its wait only when its slot
\* is filled or its sender dropped; Program Status turning shutting-down does
\* not end it, and while the worker holds the slot the caller stays suspended.
C20_NoCancel ==
    [][/\ \A c \in Calls : pc[c] = "await" /\ pc'[c] # "await" =>
             /\ slots[slotOf[c]].state \in {"filled", "dropped"}
             /\ pc'[c] = "done"
       /\ shuttingDown' # shuttingDown => pc' = pc /\ regResult' = regResult]_vars

\* shutdown is on and a caller still waits on a slot the worker holds
C20_Witness ==
    \E c \in Calls :
        /\ shuttingDown /\ pc[c] = "await"
        /\ slots[slotOf[c]].state = "open"
        /\ \E m \in held : m.call = c

\* C21: if the worker keeps receiving from the command channel and eventually
\* fills or drops every slot it receives, every register call eventually
\* returns, also with callers waiting for room on the command channel.
C21_RegisterReturns ==
    \A c \in Calls : (pc[c] \in {"send", "await"}) ~> (pc[c] = "done")

\* one caller waits for room on the full channel while another awaits its reply
C21_Witness ==
    \E c, d \in Calls :
        /\ pc[c] = "send" /\ Len(cmdQ) = CmdCap /\ ~cmdRxDropped
        /\ pc[d] = "await"

\* C22 as stated: a caller is suspended only in register's wait for the reply
\* and in receive_event's timed wait on the event channel: a register call at
\* its send step can always proceed, and so can a receive_event call at its
\* request for the receiver.
C22_Original ==
    /\ \A c \in Calls : pc[c] = "send" => ENABLED Send(c)
    /\ \A e \in EvCalls : epc[e] = "lock" => ENABLED EvLock(e)

\* the calls of receive_event that hold the receiver
Consumers == {e \in EvCalls : epc[e] = "poll"}

\* C23: at any moment at most one receive_event call waits on or reads from the
\* event receiver, and it is the holder of the receiver's lock; each payload put
\* on the event channel is returned to at most one call.
C23_SingleConsumer ==
    /\ Cardinality(Consumers) <= 1
    /\ \A e \in EvCalls : epc[e] = "poll" <=> lockHolder = e
    /\ \A p \in EventPayloads :
          /\ Cardinality({e \in EvCalls : taken[e] = p}) <= returnedCount[p]
          /\ returnedCount[p] + Queued(p) <= emittedCount[p]

\* one call holds the receiver with a payload queued while another waits for it
C23_Witness ==
    \E e, f \in EvCalls :
        /\ epc[e] = "poll" /\ epc[f] = "lock" /\ evQ # <<>>
        /\ ~shuttingDown

\* the round trip of call c yielded something else than Success(Peer(Create))
NotCreateSuccess(c) ==
    \/ sends[c] = 0
    \/ written[c] = NoPayload
    \/ written[c] \in ReplyPayloads \ {PeerCreateJson}

\* C24: for a create-peer request, Create.execute returns
\* LocalError("wrong parameter " + rendering of the request) whenever the round
\* trip yields anything other than Success(Peer(Create)): an Err from register,
\* a structured Error response, or a Success of another family or command.
C24_CreateWrongParameter ==
    \A c \in Calls :
        pc[c] = "done" /\ handler[c] = "Create" /\ message[c] = PeerCreateDto
            /\ NotCreateSuccess(c) =>
                result[c] = Err(create_local_error(WrongCreateText))

\* Create.execute ended once on a structured Error and once on a Success of
\* another family
C24_Witness ==
    \E c, d \in Calls :
        /\ pc[c] = "done" /\ handler[c] = "Create" /\ message[c] = PeerCreateDto
        /\ written[c] = ErrorJson
        /\ pc[d] = "done" /\ handler[d] = "Create" /\ message[d] = PeerCreateDto
        /\ written[d] = MediaJson

\* C25: the create-peer callback is invoked only by a Create.execute call whose
\* round trip returned Success(Peer(Create)), at most once per call; never by
\* General, never when register fails, when the response is a structured Error
\* or another success, or when the request is not recognized.
C25_CallbackOnlyOnSuccess ==
    \A c \in Calls :
        /\ Cardinality(CallbacksOf(c)) <= 1
        /\ CallbacksOf(c) # {} =>
              /\ pc[c] = "done" /\ handler[c] = "Create" /\ functionsSet
              /\ written[c] = PeerCreateJson /\ Replied(c, "Success")
              /\ result[c].ok

\* with the callback registered, one Create call succeeded and invoked it, and
\* another ended on a structured Error without invoking it
C25_Witness ==
    \E c, d \in Calls :
        /\ functionsSet /\ CallbacksOf(c) # {}
        /\ pc[d] = "done" /\ handler[d] = "Create" /\ written[d] = ErrorJson
        /\ CallbacksOf(d) = {}

\* C26: a receive_event call that finds Program Status shutting-down at its
\* first check returns the shutdown LocalError without acquiring the receiver
\* or reading the event channel: the queued payloads stay queued and the
\* channel's content is unchanged by the call.
C26_ShutDownAtFirstCheck ==
    [][\A e \in EvCalls :
          epc[e] = "check" /\ ~polled[e] /\ shuttingDown /\ epc'[e] # "check" =>
              /\ epc'[e] = "done"
              /\ eresult'[e] = Err(create_local_error(ShutDownText))
              /\ taken'[e] = NoPayload /\ ~polled'[e]
              /\ evQ' = evQ /\ evIds' = evIds /\ lastId' = lastId
              /\ lockHolder' = lockHolder /\ lockQ' = lockQ]_vars

\* a call ended at its first check while payloads were queued
C26_Witness ==
    \E e \in EvCalls :
        /\ epc[e] = "done" /\ ~polled[e] /\ eresult[e].err.message = ShutDownText
        /\ Len(evQ) = MaxEvents

\* C27: receive_event calls return the events in the order the worker put them
\* on the event channel: a payload is returned only when every payload enqueued
\* before it has been returned, whatever the timeouts in between; the payload
\* returned is the oldest queued one, and the queue keeps the emission order.
C27_EventOrder ==
    [][/\ lastId' # lastId =>
             /\ lastId' = lastId + 1
             /\ \E e \in EvCalls :
                   /\ epc[e] = "poll" /\ epc'[e] = "done"
                   /\ taken'[e] = Head(evQ) /\ eresult'[e] = FromStr(Head(evQ))
       /\ \A i \in 1..Len(evIds') : evIds'[i] = lastId' + i]_vars

\* two calls returned the two payloads the worker had emitted
C27_Witness ==
    \E e, f \in EvCalls :
        /\ e # f /\ lastId = 2
        /\ epc[e] = "done" /\ taken[e] = PeerCreateJson
        /\ epc[f] = "done" /\ taken[f] = ErrorJson

====
